---- MODULE Spec2Model ----
(***************************************************************************)
(* Model of the pool_resize timer function of the api-service              *)
(* (src/api-service/__app__/pool_resize/__init__.py): demand estimation,   *)
(* scale_up, scale_down and the per-tick loop of main.                     *)
(***************************************************************************)
EXTENDS Integers, Sequences, FiniteSets, TLC

\* ---------------------------------------------------------------- bounds
MaxSize == 2        \* largest size of a scaleset in an initial store
MaxFree == 2        \* largest number of free nodes of a scaleset
MaxCount == 3       \* largest node count requested by one task
MaxTasks == 2       \* longest task list of a pool
MaxMin == 2         \* largest autoscale.min_size
MaxMax == 3         \* largest autoscale.max_size
MaxTarget == 2      \* largest autoscale.scaleset_size
MaxLen == 2         \* longest scaleset list handed to scale_up / scale_down
MaxNeed == 4        \* largest nodes_needed / nodes_to_remove handed to them
MaxTicks == 3       \* timer invocations in one behaviour
SmallImageMax == 1  \* per-image maximum size of the small image
LargeImageMax == 2  \* per-image maximum size of the large image

\* ------------------------------------------------------- Python helpers
None == <<>>                         \* Optional[...] holding nothing
Some(x) == <<x>>                     \* Optional[...] holding x
Min(a, b) == IF a <= b THEN a ELSE b
Max(a, b) == IF a >= b THEN a ELSE b
Abs(a) == IF a < 0 THEN -a ELSE a
\* math.ceil(a / b) for b > 0 (\div rounds towards minus infinity)
Ceil(a, b) == -((-a) \div b)

RECURSIVE SeqsUpTo(_, _)
SeqsUpTo(S, n) ==
  IF n = 0 THEN {<<>>}
  ELSE LET shorter == SeqsUpTo(S, n - 1)
       IN  shorter \cup {Append(s, x) : s \in {q \in shorter : Len(q) = n - 1}, x \in S}

\* ------------------------------------------------------------ enums
ScalesetStates == {"init", "setup", "resize", "running", "shutdown", "halt", "creation_failed"}
\* ScalesetState.modifying(): the mid-transition states
modifying == {"init", "setup", "resize", "shutdown"}
\* PoolState.available()
available == {"init", "running"}
Images == {"small", "large"}
\* Scaleset.scaleset_max_size(image), also scaleset.max_size()
scaleset_max_size(image) == IF image = "small" THEN SmallImageMax ELSE LargeImageMax

PoolNames == <<"pool-a", "pool-b">>
Pools == DOMAIN PoolNames
Ticks == {"t1", "t2"}                \* timer invocations that can be in flight

\* ------------------------------------------------------------ records
AutoScaleConfig(mn, mx, target, image, region) ==
  [min_size |-> mn, max_size |-> mx, scaleset_size |-> target,
   image |-> image, region |-> region]
Task(get_pool, typed, count) == [get_pool |-> get_pool, typed |-> typed, count |-> count]
Scaleset(state, size, image) == [state |-> state, size |-> size, image |-> image]
Event(op, p, i, node, old, new) ==
  [op |-> op, pool |-> p, ss |-> i, node |-> node, old |-> old, new |-> new]

\* mutant of NoRegion: only None counts as a missing region
NoRegionOnlyNone(region) == region = "None"

\* `if not autoscale_config.region` (line 65)
NoRegion(region) == region \in {"None", ""}
\* `if pool.autoscale.max_size:` (truthiness of an Optional[int])
MaxSizeTruthy(mx) == mx # None /\ mx[1] # 0

\* ------------------------------------------------------ get_vm_count
RECURSIVE get_vm_count(_)
get_vm_count(tasks) ==
  IF tasks = <<>> THEN 0
  ELSE LET task == Head(tasks)
       IN  (IF task.get_pool # "Pool" \/ ~task.typed THEN 0 ELSE task.count)
           + get_vm_count(Tail(tasks))

\* mutant of DesiredSize: min_size is ignored
DesiredSizeNoMin(num_of_tasks, autoscale) ==
  IF MaxSizeTruthy(autoscale.max_size)
  THEN Min(num_of_tasks, autoscale.max_size[1])
  ELSE num_of_tasks

\* main, lines 128-131: the desired total node count of a pool
DesiredSize(num_of_tasks, autoscale) ==
  LET nodes_needed == Max(num_of_tasks, autoscale.min_size)
  IN  IF MaxSizeTruthy(autoscale.max_size)
      THEN Min(nodes_needed, autoscale.max_size[1])
      ELSE nodes_needed

\* mutant of InModifying: only a scaleset being created counts as modifying
InModifyingOnlyInit(scaleset) == scaleset.state = "init"

\* main, line 138: `scaleset.state in ScalesetState.modifying()`
InModifying(scaleset) == scaleset.state \in modifying

\* main, lines 136-141: the scan of the pool's scalesets
RECURSIVE ScanScalesets(_, _, _)
ScanScalesets(scalesets, i, nodes_needed) ==
  IF i > Len(scalesets) THEN [pool_resize |-> FALSE, nodes_needed |-> nodes_needed]
  ELSE IF InModifying(scalesets[i])
       THEN [pool_resize |-> TRUE, nodes_needed |-> nodes_needed]
       ELSE ScanScalesets(scalesets, i + 1, nodes_needed - scalesets[i].size)

\* ------------------------------------------------------------ scale_up
\* scale_up, line 27: the cap of an existing scaleset
ExistingCap(scaleset, autoscale_config) ==
  Min(scaleset_max_size(scaleset.image), autoscale_config.scaleset_size)

\* mutant of FilledSize: the whole demand goes to the scaleset, cap or not
FilledSizeNoCap(current_size, max_size, nodes_needed) == current_size + nodes_needed

\* scale_up, lines 32-41: the new size of a running scaleset below its cap
FilledSize(current_size, max_size, nodes_needed) ==
  IF nodes_needed <= max_size - current_size
  THEN current_size + nodes_needed
  ELSE max_size

\* mutant of NeededAfterFill: the size the scaleset already had is forgotten
NeededAfterFillNoCurrent(current_size, max_size, nodes_needed) ==
  IF nodes_needed <= max_size - current_size
  THEN 0
  ELSE nodes_needed - max_size

\* scale_up, lines 34-39: nodes_needed after filling a scaleset
NeededAfterFill(current_size, max_size, nodes_needed) ==
  IF nodes_needed <= max_size - current_size
  THEN 0
  ELSE nodes_needed - (max_size - current_size)

\* mutant of ReturnsEarly: the loop goes on after the demand is met
ReturnsNever(nodes_needed) == FALSE

\* scale_up, lines 46-47: `if nodes_needed == 0: return`
ReturnsEarly(nodes_needed) == nodes_needed = 0

\* scale_up, lines 24-47: the loop over the existing scalesets.  acc holds the
\* local list, the remaining nodes_needed, the mutations issued so far and
\* whether line 47 returned.
RECURSIVE FillExisting(_, _, _, _)
FillExisting(p, autoscale_config, i, acc) ==
  IF i > Len(acc.scalesets) \/ acc.returned THEN acc
  ELSE LET scaleset == acc.scalesets[i]
           max_size == ExistingCap(scaleset, autoscale_config)
       IN  IF scaleset.state = "running" /\ scaleset.size < max_size
           THEN LET size == FilledSize(scaleset.size, max_size, acc.nodes_needed)
                    left == NeededAfterFill(scaleset.size, max_size, acc.nodes_needed)
                IN  FillExisting(p, autoscale_config, i + 1,
                      [scalesets |-> [acc.scalesets EXCEPT ![i] =
                                        [@ EXCEPT !.size = size, !.state = "resize"]],
                       nodes_needed |-> left,
                       events |-> Append(acc.events,
                                         Event("resize", p, i, 0, scaleset.size, size)),
                       returned |-> ReturnsEarly(left)])
           ELSE FillExisting(p, autoscale_config, i + 1, acc)

\* scale_up, lines 52-55: the cap of a new scaleset
NewCap(autoscale_config) ==
  Min(scaleset_max_size(autoscale_config.image), autoscale_config.scaleset_size)

\* scale_up, lines 59-63: the size of the next new scaleset
max_nodes_scaleset(autoscale_config, nodes_needed) ==
  Min(NewCap(autoscale_config), nodes_needed)

\* Scaleset.create: a new record for the pool, not yet running
ScalesetCreate(image, size) == Scaleset("init", size, image)

\* scale_up, lines 49-78: `count` iterations of the creation loop.  acc holds
\* the created scalesets, the remaining nodes_needed, the mutations issued so
\* far and whether line 66 raised.
RECURSIVE CreateNew(_, _, _, _, _)
CreateNew(p, autoscale_config, existing, count, acc) ==
  IF count <= 0 \/ acc.raised THEN acc
  ELSE IF NoRegion(autoscale_config.region)
       THEN [acc EXCEPT !.raised = TRUE]
       ELSE LET size == max_nodes_scaleset(autoscale_config, acc.nodes_needed)
            IN  CreateNew(p, autoscale_config, existing, count - 1,
                  [created |-> Append(acc.created,
                                      ScalesetCreate(autoscale_config.image, size)),
                   nodes_needed |-> acc.nodes_needed - size,
                   events |-> Append(acc.events,
                                Event("create", p, existing + Len(acc.created) + 1,
                                      0, 0, size)),
                   raised |-> FALSE])

\* mutant of scale_up: new scalesets are created for the whole demand, the
\* existing ones are not filled first
scale_up_create_only(p, autoscale, scalesets, nodes_needed) ==
  IF autoscale = None
  THEN [scalesets |-> scalesets, created |-> <<>>, nodes_needed |-> nodes_needed,
        events |-> <<>>, raised |-> FALSE]
  ELSE LET made == CreateNew(p, autoscale[1], Len(scalesets),
                             Ceil(nodes_needed, NewCap(autoscale[1])),
                             [created |-> <<>>, nodes_needed |-> nodes_needed,
                              events |-> <<>>, raised |-> FALSE])
       IN  [scalesets |-> scalesets, created |-> made.created,
            nodes_needed |-> made.nodes_needed, events |-> made.events,
            raised |-> made.raised]

\* scale_up, lines 18-78.  autoscale is pool.autoscale (None or a config).
scale_up(p, autoscale, scalesets, nodes_needed) ==
  LET untouched == [scalesets |-> scalesets, created |-> <<>>,
                    nodes_needed |-> nodes_needed, events |-> <<>>, raised |-> FALSE]
  IN  IF autoscale = None THEN untouched
      ELSE LET filled == FillExisting(p, autoscale[1], 1,
                           [scalesets |-> scalesets, nodes_needed |-> nodes_needed,
                            events |-> <<>>, returned |-> FALSE])
           IN  IF filled.returned
               THEN [untouched EXCEPT !.scalesets = filled.scalesets,
                                      !.nodes_needed = filled.nodes_needed,
                                      !.events = filled.events]
               ELSE LET made == CreateNew(p, autoscale[1], Len(scalesets),
                                  Ceil(filled.nodes_needed, NewCap(autoscale[1])),
                                  [created |-> <<>>, nodes_needed |-> filled.nodes_needed,
                                   events |-> filled.events, raised |-> FALSE])
                    IN  [scalesets |-> filled.scalesets, created |-> made.created,
                         nodes_needed |-> made.nodes_needed, events |-> made.events,
                         raised |-> made.raised]

\* ---------------------------------------------------------- scale_down
\* mutant of max_nodes_remove: the free-node count is ignored
max_nodes_remove_all(nodes, nodes_to_remove) == nodes_to_remove

\* mutant of max_nodes_remove: the count still to remove is ignored
max_nodes_remove_free(nodes, nodes_to_remove) == nodes

\* scale_down, line 88
max_nodes_remove(nodes, nodes_to_remove) == Min(nodes, nodes_to_remove)

\* mutant of Retires: the requested count need not cover the scaleset
RetiresWhenAllFree(scaleset, nodes, nodes_to_remove) == nodes = scaleset.size

\* scale_down, line 89: the whole scaleset is retired
Retires(scaleset, nodes, nodes_to_remove) ==
  /\ max_nodes_remove(nodes, nodes_to_remove) >= scaleset.size
  /\ nodes = scaleset.size

\* mutant of ShutdownNodes: only the first node is told to shut down
ShutdownFirstNode(p, i, nodes, k) ==
  IF nodes >= 1 THEN <<Event("set_shutdown", p, i, 1, 0, 0)>> ELSE <<>>

\* scale_down, lines 93-94: one set_shutdown per node found free
RECURSIVE ShutdownNodes(_, _, _, _)
ShutdownNodes(p, i, nodes, k) ==
  IF k > nodes THEN <<>>
  ELSE <<Event("set_shutdown", p, i, k, 0, 0)>> \o ShutdownNodes(p, i, nodes, k + 1)

\* scale_down, lines 83-100.  free[i] is the number of nodes that
\* Node.search_states finds free for the i-th scaleset.
RECURSIVE scale_down(_, _, _, _)
scale_down(p, free, i, acc) ==
  IF i > Len(acc.scalesets) THEN acc
  ELSE LET scaleset == acc.scalesets[i]
           nodes == free[i]
           removable == max_nodes_remove(nodes, acc.nodes_to_remove)
       IN  IF nodes > 0 /\ acc.nodes_to_remove > 0
           THEN IF Retires(scaleset, nodes, acc.nodes_to_remove)
                THEN scale_down(p, free, i + 1,
                       [scalesets |-> [acc.scalesets EXCEPT ![i].state = "shutdown"],
                        nodes_to_remove |-> acc.nodes_to_remove - scaleset.size,
                        events |-> Append(acc.events,
                                     Event("shutdown", p, i, 0, scaleset.size, scaleset.size))
                                   \o ShutdownNodes(p, i, nodes, 1)])
                ELSE scale_down(p, free, i + 1,
                       [scalesets |-> [acc.scalesets EXCEPT ![i] =
                                         [@ EXCEPT !.size = scaleset.size - removable,
                                                   !.state = "resize"]],
                        nodes_to_remove |-> acc.nodes_to_remove - removable,
                        events |-> Append(acc.events,
                                     Event("resize", p, i, 0, scaleset.size,
                                           scaleset.size - removable))])
           ELSE scale_down(p, free, i + 1, acc)

\* scaleset.save() of every scaleset an event list names: the saved record
\* replaces the stored one
RECURSIVE Saved(_, _, _)
Saved(stored, scalesets, events) ==
  IF events = <<>> THEN stored
  ELSE LET e == Head(events)
       IN  Saved(IF e.op \in {"resize", "shutdown"}
                 THEN [stored EXCEPT ![e.ss] = scalesets[e.ss]]
                 ELSE stored,
                 scalesets, Tail(events))

\* ------------------------------------------------------------- state
VARIABLES
  pools,         \* Pool records, by position in Pool.search_states' order
  tasks,         \* Task records of each pool
  store,         \* persisted Scaleset records of each pool, in enumeration order
  free,          \* per scaleset, the number of its Node records in state free
  pc,            \* position of each invocation of main
  pool,          \* main: index of the pool the for loop is at
  scalesets,     \* main: the list read at line 135
  nodes_needed,  \* main: nodes_needed
  log,           \* mutations an invocation has issued, in order
  seen,          \* per pool, what the running invocation computed for it
  prev_seen,     \* seen of the invocation before
  prev_pc,       \* how the invocation before ended
  ticks,         \* invocations started so far
  remaining,     \* scale_up / scale_down: their own count when they ended
  ext_changed,   \* an external change happened since the last invocation started
  quiet          \* no external change between the last two invocation starts

vars == <<pools, tasks, store, free, pc, pool, scalesets, nodes_needed,
          log, seen, prev_seen, prev_pc, ticks, remaining, ext_changed, quiet>>

\* what main computed for a pool: the list it read, the desired total, the
\* nodes_needed after the scan and the pool_resize flag
Seen(list, desired, needed, busy) ==
  Some([scalesets |-> list, desired |-> desired, nodes_needed |-> needed,
        pool_resize |-> busy])

NothingSeen == [p \in Pools |-> None]

\* main, line 119: the for loop moves to the next pool or ends
Advance(t, p) ==
  IF p = Len(PoolNames)
  THEN /\ pc' = [pc EXCEPT ![t] = "done"]
       /\ pool' = pool
  ELSE /\ pc' = [pc EXCEPT ![t] = "scan"]
       /\ pool' = [pool EXCEPT ![t] = p + 1]

\* the timer fires: main starts (line 117)
TickStart(t) ==
  /\ pc[t] \in {"idle", "done", "error"}
  /\ ticks < MaxTicks
  /\ ticks' = ticks + 1
  /\ pc' = [pc EXCEPT ![t] = "scan"]
  /\ pool' = [pool EXCEPT ![t] = 1]
  /\ log' = [log EXCEPT ![t] = <<>>]
  /\ prev_seen' = seen[t]
  /\ prev_pc' = pc[t]
  /\ seen' = [seen EXCEPT ![t] = NothingSeen]
  /\ quiet' = (ticks >= 1 /\ ~ext_changed)
  /\ ext_changed' = FALSE
  /\ UNCHANGED <<pools, tasks, store, free, scalesets, nodes_needed, remaining>>

\* main, lines 119-147: one pool is read and its demand computed
Scan(t) ==
  /\ pc[t] = "scan"
  /\ LET p == pool[t]
     IN  IF pools[p].state \notin available \/ pools[p].autoscale = None
         THEN /\ Advance(t, p)
              /\ UNCHANGED <<scalesets, nodes_needed, seen>>
         ELSE LET desired == DesiredSize(get_vm_count(tasks[p]), pools[p].autoscale[1])
                  scan == ScanScalesets(store[p], 1, desired)
              IN  /\ scalesets' = [scalesets EXCEPT ![t] = store[p]]
                  /\ nodes_needed' = [nodes_needed EXCEPT ![t] = scan.nodes_needed]
                  /\ seen' = [seen EXCEPT ![t][p] =
                               Seen(store[p], desired, scan.nodes_needed, scan.pool_resize)]
                  /\ IF scan.pool_resize \/ scan.nodes_needed = 0
                     THEN Advance(t, p)
                     ELSE /\ pc' = [pc EXCEPT ![t] = IF scan.nodes_needed > 0
                                                    THEN "scale_up" ELSE "scale_down"]
                          /\ pool' = pool
  /\ UNCHANGED <<pools, tasks, store, free, log, prev_seen, prev_pc, ticks, remaining,
                 ext_changed, quiet>>

\* mutant of ScaleUp: nothing is done when the stored scalesets are no longer
\* the ones main read
ScaleUpGuarded(t) ==
  /\ pc[t] = "scale_up"
  /\ LET p == pool[t]
         r == scale_up(p, IF store[p] = scalesets[t] THEN pools[p].autoscale ELSE None,
                       scalesets[t], nodes_needed[t])
     IN  /\ store' = [store EXCEPT ![p] = Saved(@, r.scalesets, r.events) \o r.created]
         /\ free' = [free EXCEPT ![p] = @ \o [k \in 1..Len(r.created) |-> 0]]
         /\ scalesets' = [scalesets EXCEPT ![t] = r.scalesets]
         /\ remaining' = [remaining EXCEPT ![t] = r.nodes_needed]
         /\ log' = [log EXCEPT ![t] = @ \o r.events]
         /\ IF r.raised
            THEN pc' = [pc EXCEPT ![t] = "error"] /\ pool' = pool
            ELSE Advance(t, p)
  /\ UNCHANGED <<pools, tasks, nodes_needed, seen, prev_seen, prev_pc, ticks,
                 ext_changed, quiet>>

\* mutant of ScaleUp: an exception of scale_up is caught and the loop goes on
\* with the next pool
ScaleUpIsolated(t) ==
  /\ pc[t] = "scale_up"
  /\ LET p == pool[t]
         r == scale_up(p, pools[p].autoscale, scalesets[t], nodes_needed[t])
     IN  /\ store' = [store EXCEPT ![p] = Saved(@, r.scalesets, r.events) \o r.created]
         /\ free' = [free EXCEPT ![p] = @ \o [k \in 1..Len(r.created) |-> 0]]
         /\ scalesets' = [scalesets EXCEPT ![t] = r.scalesets]
         /\ remaining' = [remaining EXCEPT ![t] = r.nodes_needed]
         /\ log' = [log EXCEPT ![t] = @ \o r.events]
         /\ Advance(t, p)
  /\ UNCHANGED <<pools, tasks, nodes_needed, seen, prev_seen, prev_pc, ticks,
                 ext_changed, quiet>>

\* main, line 149: scale_up(pool, scalesets, nodes_needed)
ScaleUp(t) ==
  /\ pc[t] = "scale_up"
  /\ LET p == pool[t]
         r == scale_up(p, pools[p].autoscale, scalesets[t], nodes_needed[t])
     IN  /\ store' = [store EXCEPT ![p] = Saved(@, r.scalesets, r.events) \o r.created]
         /\ free' = [free EXCEPT ![p] = @ \o [k \in 1..Len(r.created) |-> 0]]
         /\ scalesets' = [scalesets EXCEPT ![t] = r.scalesets]
         /\ remaining' = [remaining EXCEPT ![t] = r.nodes_needed]
         /\ log' = [log EXCEPT ![t] = @ \o r.events]
         /\ IF r.raised
            THEN pc' = [pc EXCEPT ![t] = "error"] /\ pool' = pool
            ELSE Advance(t, p)
  /\ UNCHANGED <<pools, tasks, nodes_needed, seen, prev_seen, prev_pc, ticks,
                 ext_changed, quiet>>

\* main, line 151: scale_down(scalesets, abs(nodes_needed))
ScaleDown(t) ==
  /\ pc[t] = "scale_down"
  /\ LET p == pool[t]
         r == scale_down(p, free[p], 1,
                         [scalesets |-> scalesets[t],
                          nodes_to_remove |-> Abs(nodes_needed[t]),
                          events |-> <<>>])
     IN  /\ store' = [store EXCEPT ![p] = Saved(@, r.scalesets, r.events)]
         /\ scalesets' = [scalesets EXCEPT ![t] = r.scalesets]
         /\ remaining' = [remaining EXCEPT ![t] = r.nodes_to_remove]
         /\ log' = [log EXCEPT ![t] = @ \o r.events]
         /\ Advance(t, p)
  /\ UNCHANGED <<pools, tasks, free, nodes_needed, seen, prev_seen, prev_pc, ticks,
                 ext_changed, quiet>>

\* the platform finishes a transition this function requested:
\* resizing/initialising -> running, shutting-down -> halted.  It is taken
\* between invocations: main never holds a list with a mid-transition
\* scaleset past its scan, so a transition that ends while main runs commutes
\* with main's steps and is the same as one that ends before or after it.
ExternalConverge(p, i) ==
  /\ \A t \in Ticks : pc[t] \in {"idle", "done", "error"}
  /\ store[p][i].state \in modifying
  /\ store' = [store EXCEPT ![p][i].state =
                 IF @ = "shutdown" THEN "halt" ELSE "running"]
  /\ ext_changed' = TRUE
  /\ UNCHANGED <<pools, tasks, free, pc, pool, scalesets, nodes_needed,
                 log, seen, prev_seen, prev_pc, ticks, remaining, quiet>>

\* ------------------------------------------------------ initial states
Pool(state, autoscale) == [state |-> state, autoscale |-> autoscale]
World(pl, tk, list, fr) == [pool |-> pl, tasks |-> tk, store |-> list, free |-> fr]

\* every list of at most n scalesets over recs, each with a free-node count
ListsWithFree(recs, frees, n) ==
  {[store |-> [k \in DOMAIN q |-> q[k][1]], free |-> [k \in DOMAIN q |-> q[k][2]]] :
     q \in SeqsUpTo(recs \X frees, n)}

RECURSIVE SumSizes(_)
SumSizes(list) == IF list = <<>> THEN 0 ELSE Head(list).size + SumSizes(Tail(list))

\* a pool main passes over: it has no autoscale configuration
IdleWorld == World(Pool("running", None), <<>>, <<>>, <<>>)

\* the pools of the tick specification
TickConfig(region) == Some(AutoScaleConfig(0, None, MaxTarget, "large", region))
TickTasks == {<<>>, <<Task("Pool", TRUE, MaxCount)>>}
TickScalesets(states) == {Scaleset(st, sz, "large") : st \in states, sz \in 1..MaxSize}
\* pools main works on: with or without a region, with or without demand, with
\* at most one scaleset
ActiveWorlds ==
  {World(Pool("running", TickConfig(region)), tk, l.store, l.free) :
     region \in {"None", "eastus"}, tk \in TickTasks,
     l \in ListsWithFree(TickScalesets({"running", "resize", "halt"}), 0..MaxFree, 1)}
\* pools main passes over: not available, or without autoscale configuration
PassedWorlds ==
  {World(pl, <<Task("Pool", TRUE, MaxCount)>>, l.store, l.free) :
     pl \in {Pool("running", None), Pool("halt", TickConfig("eastus"))},
     l \in ListsWithFree(TickScalesets({"running"}), {MaxFree}, 1)}
TickWorlds == ActiveWorlds \cup PassedWorlds

\* the store holds the worlds w; nothing has been issued yet
InitWith(w) ==
  /\ pools = [p \in Pools |-> w[p].pool]
  /\ tasks = [p \in Pools |-> w[p].tasks]
  /\ store = [p \in Pools |-> w[p].store]
  /\ free = [p \in Pools |-> w[p].free]
  /\ log = [t \in Ticks |-> <<>>]
  /\ prev_seen = NothingSeen
  /\ prev_pc = "idle"
  /\ remaining = [t \in Ticks |-> 0]
  /\ ext_changed = FALSE
  /\ quiet = FALSE

Init ==
  /\ \E w \in [Pools -> TickWorlds] : InitWith(w)
  /\ pc = [t \in Ticks |-> "idle"]
  /\ pool = [t \in Ticks |-> 1]
  /\ scalesets = [t \in Ticks |-> <<>>]
  /\ nodes_needed = [t \in Ticks |-> 0]
  /\ seen = [t \in Ticks |-> NothingSeen]
  /\ ticks = 0

Next ==
  \/ TickStart("t1")
  \/ Scan("t1")
  \/ ScaleUp("t1")
  \/ ScaleDown("t1")
  \/ \E p \in Pools : \E i \in DOMAIN store[p] : ExternalConverge(p, i)

Spec == Init /\ [][Next]_vars

\* --------------------------------------- one call of scale_up / scale_down
\* main calls them for a pool none of whose scalesets is mid-transition
CallScalesets(images) ==
  {Scaleset(st, sz, im) : st \in {"running", "halt"}, sz \in 1..MaxSize, im \in images}

\* invocation t1 stands at the call for the first pool, which is world w, with
\* nodes_needed = n
InitCall(w, n, at) ==
  /\ InitWith([p \in Pools |-> IF p = 1 THEN w ELSE IdleWorld])
  /\ pc = [t \in Ticks |-> IF t = "t1" THEN at ELSE "idle"]
  /\ pool = [t \in Ticks |-> 1]
  /\ scalesets = [t \in Ticks |-> IF t = "t1" THEN w.store ELSE <<>>]
  /\ nodes_needed = [t \in Ticks |-> IF t = "t1" THEN n ELSE 0]
  /\ seen = [t \in Ticks |->
              IF t = "t1" /\ at # "scan"
              THEN [NothingSeen EXCEPT ![1] = Seen(w.store, n + SumSizes(w.store), n, FALSE)]
              ELSE NothingSeen]
  /\ ticks = 1

UpConfigs ==
  {None} \cup {Some(AutoScaleConfig(0, None, target, image, region)) :
                 target \in 1..MaxTarget, image \in Images,
                 region \in {"None", "", "eastus"}}

InitUp ==
  \E autoscale \in UpConfigs, n \in 1..MaxNeed,
     l \in ListsWithFree(CallScalesets(Images), {0}, MaxLen) :
    InitCall(World(Pool("running", autoscale), <<>>, l.store, l.free), n, "scale_up")

NextUp == ScaleUp("t1")

SpecUp == InitUp /\ [][NextUp]_vars

InitDown ==
  \E n \in 1..MaxNeed, l \in ListsWithFree(CallScalesets({"large"}), 0..MaxFree, MaxLen) :
    InitCall(World(Pool("running", Some(AutoScaleConfig(0, None, 1, "large", "eastus"))),
                   <<>>, l.store, l.free), -n, "scale_down")

NextDown == ScaleDown("t1")

SpecDown == InitDown /\ [][NextDown]_vars

\* ------------------------------------------------ the demand of one pool
TaskLists ==
  SeqsUpTo({Task(gp, typed, count) :
              gp \in {"None", "Pool"}, typed \in BOOLEAN, count \in 1..MaxCount}, MaxTasks)

InitDemand ==
  \E mn \in 0..MaxMin, mx \in {None} \cup {Some(m) : m \in 0..MaxMax}, tk \in TaskLists :
    InitCall(World(Pool("running", Some(AutoScaleConfig(mn, mx, 1, "large", "eastus"))),
                   tk, <<>>, <<>>), 0, "scan")

NextDemand == Scan("t1")

SpecDemand == InitDemand /\ [][NextDemand]_vars

\* ------------------------------------------------------------ properties
\* the list invocation t read for pool p (seen[t][p] # None)
ReadList(t, p) == seen[t][p][1].scalesets
\* the mutations invocation t issued for pool p
Mutated(t, p) == \E k \in DOMAIN log[t] : log[t][k].pool = p
\* the size increase of the i-th scaleset of the first pool since it was read
Increase(i) == store[1][i].size - ReadList("t1", 1)[i].size
RECURSIVE SumTo(_, _)
SumTo(f, n) == IF n = 0 THEN 0 ELSE f[n] + SumTo(f, n - 1)
\* the call of scale_up / scale_down on the first pool has ended
Called == pc["t1"] \notin {"scale_up", "scale_down"}
CallConfig == pools[1].autoscale

\* C1: a pool that has a scaleset in a mid-transition state when main reads
\* its scalesets gets no mutation in that tick, whatever its demand is.
BusyPoolSuppression ==
  \A t \in Ticks : \A p \in Pools :
    (/\ seen[t][p] # None
     /\ \E i \in DOMAIN ReadList(t, p) : ReadList(t, p)[i].state \in modifying)
    => ~Mutated(t, p)

\* C1 witness: a tick has ended that passed over a busy pool whose desired
\* total differs from its supply, after it mutated the other pool.
BusyPoolSkipped ==
  /\ pc["t1"] = "done"
  /\ seen["t1"][2] # None
  /\ \E i \in DOMAIN ReadList("t1", 2) : ReadList("t1", 2)[i].state \in modifying
  /\ seen["t1"][2][1].desired > SumSizes(ReadList("t1", 2))
  /\ Mutated("t1", 1)

\* C2: every scaleset scale_up made larger, and every scaleset it created,
\* ends with size <= min(per-image max size, autoscale.scaleset_size).
CapRespect ==
  (Called /\ CallConfig # None) =>
    \A i \in DOMAIN store[1] :
      LET cap == Min(IF store[1][i].image = "small" THEN SmallImageMax ELSE LargeImageMax,
                     CallConfig[1].scaleset_size)
      IN  /\ (i <= Len(ReadList("t1", 1)) /\ Increase(i) > 0) => store[1][i].size <= cap
          /\ i > Len(ReadList("t1", 1)) => store[1][i].size <= cap

\* C2 witness: scale_up raised an existing scaleset and created another one.
CapReached ==
  /\ Called /\ CallConfig # None
  /\ \E i \in DOMAIN ReadList("t1", 1) : Increase(i) > 0
  /\ Len(store[1]) > Len(ReadList("t1", 1))

\* C3: when scale_up ends without error for a configuration with a region,
\* the size increases of the existing scalesets plus the sizes of the created
\* scalesets add up to the nodes_needed it was called with.
ScaleUpConservation ==
  (/\ Called /\ pc["t1"] # "error"
   /\ CallConfig # None /\ CallConfig[1].region \notin {"None", ""})
  => SumTo([i \in DOMAIN store[1] |->
              IF i <= Len(ReadList("t1", 1)) THEN Increase(i) ELSE store[1][i].size],
           Len(store[1])) = nodes_needed["t1"]

\* C3 witness: the demand was split over an existing scaleset and two new ones.
ScaleUpSplit ==
  /\ Called /\ pc["t1"] # "error" /\ CallConfig # None
  /\ \E i \in DOMAIN ReadList("t1", 1) : Increase(i) > 0
  /\ Len(store[1]) >= Len(ReadList("t1", 1)) + 2

\* what scale_down took from the i-th scaleset of the first pool: its size
\* when it was retired, else its size decrease
Removed(i) ==
  IF store[1][i].state = "shutdown" THEN ReadList("t1", 1)[i].size ELSE -Increase(i)
\* nodes_to_remove when scale_down came to the i-th scaleset
LeftAt(i) == -nodes_needed["t1"] - SumTo([j \in 1..(i - 1) |-> Removed(j)], i - 1)
\* set_shutdown commands issued to nodes of the i-th scaleset of pool p
ShutdownCommands(t, p, i) ==
  {k \in DOMAIN log[t] : /\ log[t][k].op = "set_shutdown"
                         /\ log[t][k].pool = p /\ log[t][k].ss = i}

\* C4: scale_down takes from no scaleset more nodes than the scaleset has
\* free nodes.
NoOverReclamation ==
  Called => \A i \in DOMAIN ReadList("t1", 1) : Removed(i) <= free[1][i]

\* C4 witness: a scaleset lost all its free nodes, fewer than its size and
\* fewer than requested.
ReclaimedAllFree ==
  /\ Called
  /\ \E i \in DOMAIN ReadList("t1", 1) :
       /\ Removed(i) = free[1][i] /\ free[1][i] > 0
       /\ free[1][i] < ReadList("t1", 1)[i].size
       /\ free[1][i] < LeftAt(i)

\* C5: scale_down sets a scaleset to shutdown, and commands its nodes to shut
\* down, only when all its nodes are free and the count still to remove is at
\* least its size; otherwise it does neither.
FullRetirementRule ==
  Called =>
    \A i \in DOMAIN ReadList("t1", 1) :
      /\ (store[1][i].state = "shutdown" \/ ShutdownCommands("t1", 1, i) # {})
         => /\ free[1][i] = ReadList("t1", 1)[i].size
            /\ LeftAt(i) >= ReadList("t1", 1)[i].size
      /\ store[1][i].state = "shutdown" <=> ShutdownCommands("t1", 1, i) # {}

\* C5 witness: the second scaleset was retired after the first was shrunk.
RetiredSecond ==
  /\ Called
  /\ Len(ReadList("t1", 1)) >= 2
  /\ Removed(1) > 0 /\ store[1][1].state = "resize"
  /\ store[1][2].state = "shutdown"
  /\ Cardinality(ShutdownCommands("t1", 1, 2)) = ReadList("t1", 1)[2].size

\* C6 as stated: when nothing external changed since the tick before started,
\* a tick issues no mutation and computes nodes_needed = 0 for every pool
\* (every pool whose scan it completes).
SecondTickComputesZero ==
  (quiet /\ ~ext_changed /\ pc["t1"] \in {"done", "error"}) =>
    /\ log["t1"] = <<>>
    /\ \A p \in Pools :
         (seen["t1"][p] # None /\ ~seen["t1"][p][1].pool_resize)
         => seen["t1"][p][1].nodes_needed = 0

\* C6 amended: when nothing external changed since the tick before started,
\* a tick issues no mutation for a pool the tick before had reached, and none
\* at all when the tick before ended without error.
SecondTickNoMutation ==
  (quiet /\ ~ext_changed) =>
    /\ prev_pc = "done" => log["t1"] = <<>>
    /\ \A p \in Pools : (prev_seen[p] # None \/ pools[p].autoscale = None) => ~Mutated("t1", p)

\* C6 witness: the second of two ticks has ended with nothing external in
\* between, the first one had mutated both pools.
SecondTickQuiet ==
  /\ quiet /\ ~ext_changed /\ pc["t1"] = "done" /\ prev_pc = "done"
  /\ \A p \in Pools :
       /\ prev_seen[p] # None /\ seen["t1"][p] # None
       /\ store[p] # prev_seen[p][1].scalesets

\* the desired total main computed for the first pool
Desired == seen["t1"][1][1].desired

\* C7 as stated: the desired total is <= max_size whenever max_size is set,
\* 0 included.
UpperDemandClamp ==
  (seen["t1"][1] # None /\ CallConfig[1].max_size # None)
  => Desired <= CallConfig[1].max_size[1]

\* C8 as stated: the desired total is >= min_size for every min_size and
\* max_size.
LowerDemandBound ==
  seen["t1"][1] # None => Desired >= CallConfig[1].min_size

\* C8 amended: the desired total is >= min_size when max_size is unset or is
\* at least min_size.
LowerDemandBoundConsistent ==
  (/\ seen["t1"][1] # None
   /\ \/ CallConfig[1].max_size = None
      \/ CallConfig[1].max_size[1] >= CallConfig[1].min_size)
  => Desired >= CallConfig[1].min_size

\* C8 witness: the tasks ask for less than min_size, max_size is set above
\* it, and the desired total is min_size.
RaisedToMinSize ==
  /\ seen["t1"][1] # None
  /\ CallConfig[1].max_size # None /\ CallConfig[1].max_size[1] > CallConfig[1].min_size
  /\ tasks[1] # <<>> /\ get_vm_count(tasks[1]) < CallConfig[1].min_size
  /\ Desired = CallConfig[1].min_size

\* the room scale_up finds in the running scalesets of a list
RECURSIVE Room(_, _)
Room(list, target) ==
  IF list = <<>> THEN 0
  ELSE LET s == Head(list)
           cap == Min(IF s.image = "small" THEN SmallImageMax ELSE LargeImageMax, target)
       IN  (IF s.state = "running" /\ s.size < cap THEN cap - s.size ELSE 0)
           + Room(Tail(list), target)

\* C9: with no region configured, scale_up raises, having created no
\* scaleset, exactly when the demand exceeds the room of the running scalesets.
MissingRegionError ==
  (Called /\ CallConfig # None /\ CallConfig[1].region \in {"None", ""}) =>
    LET room == Room(ReadList("t1", 1), CallConfig[1].scaleset_size)
    IN  /\ nodes_needed["t1"] > room
           => pc["t1"] = "error" /\ Len(store[1]) = Len(ReadList("t1", 1))
        /\ nodes_needed["t1"] <= room => pc["t1"] # "error"

\* C9 witness: scale_up raised for an empty region string after it had
\* resized a scaleset.
RaisedAfterResize ==
  /\ pc["t1"] = "error" /\ CallConfig[1].region = ""
  /\ log["t1"] # <<>>

\* C10 as stated: every scaleset a tick resizes or sets to shutdown was
\* running when the tick read it.
OnlyOutOfRunning ==
  \A t \in Ticks : \A k \in DOMAIN log[t] :
    log[t][k].op \in {"resize", "shutdown"}
    => ReadList(t, log[t][k].pool)[log[t][k].ss].state = "running"

\* the cap scale_up applies to an existing scaleset of the first pool
CapOf(s) ==
  Min(IF s.image = "small" THEN SmallImageMax ELSE LargeImageMax, CallConfig[1].scaleset_size)
\* positions of the events of kind op in the log of the first invocation
EventsOf(op) == {k \in DOMAIN log["t1"] : log["t1"][k].op = op}

\* C11: scale_up creates a scaleset only when every running scaleset of the
\* list is at or above its cap, and every resize it issues comes before its
\* first creation.
FillBeforeCreate ==
  (Called /\ CallConfig # None) =>
    /\ \A c \in EventsOf("create") : \A r \in EventsOf("resize") : r < c
    /\ EventsOf("create") # {} =>
         \A i \in DOMAIN ReadList("t1", 1) :
           ReadList("t1", 1)[i].state = "running"
           => store[1][i].size >= CapOf(ReadList("t1", 1)[i])

\* C11 witness: a scaleset was filled to its cap and then one was created.
FilledThenCreated ==
  /\ Called /\ CallConfig # None
  /\ \E r \in EventsOf("resize") : \E c \in EventsOf("create") :
       /\ r < c
       /\ store[1][log["t1"][r].ss].size = CapOf(ReadList("t1", 1)[log["t1"][r].ss])
       /\ store[1][log["t1"][r].ss].state = "resize"

\* C12: scale_up stops at the scaleset whose fill brings nodes_needed to 0:
\* the scalesets after it are unchanged and nothing is created; a running
\* scaleset at or above its cap is unchanged too.
EarlyStop ==
  (Called /\ CallConfig # None) =>
    LET list == ReadList("t1", 1)
        target == CallConfig[1].scaleset_size
    IN  /\ \A k \in DOMAIN list :
             (/\ Room(SubSeq(list, 1, k), target) >= nodes_needed["t1"]
              /\ Room(SubSeq(list, 1, k), target) > Room(SubSeq(list, 1, k - 1), target))
             => /\ \A i \in (k + 1)..Len(list) : store[1][i] = list[i]
                /\ Len(store[1]) = Len(list)
                /\ EventsOf("create") = {}
                /\ \A e \in DOMAIN log["t1"] : log["t1"][e].ss <= k
        /\ \A i \in DOMAIN list :
             (list[i].state = "running" /\ list[i].size >= CapOf(list[i]))
             => store[1][i] = list[i]

\* C12 witness: the first of two running scalesets with room took the whole
\* demand and the second kept its size and state.
StoppedAtFirst ==
  /\ Called /\ CallConfig # None
  /\ Len(ReadList("t1", 1)) >= 2
  /\ Increase(1) = nodes_needed["t1"]
  /\ ReadList("t1", 1)[2].state = "running"
  /\ ReadList("t1", 1)[2].size < CapOf(ReadList("t1", 1)[2])
  /\ store[1][2] = ReadList("t1", 1)[2]

\* C13: scale_down takes the scalesets in list order; the i-th one gives up
\* min(its free nodes, what is still to remove after the ones before it), and
\* one with no free nodes, or reached when nothing is left to remove, keeps
\* its size and state.
FirstFoundReclamation ==
  Called =>
    \A i \in DOMAIN ReadList("t1", 1) :
      IF free[1][i] > 0 /\ LeftAt(i) > 0
      THEN /\ Removed(i) = Min(free[1][i], LeftAt(i))
           /\ store[1][i].state \in {"resize", "shutdown"}
      ELSE store[1][i] = ReadList("t1", 1)[i]

\* C13 witness: the first scaleset gave up its only free node, the second one
\* the one node still missing although it has more free nodes.
ReclaimedInOrder ==
  /\ Called
  /\ Len(ReadList("t1", 1)) >= 2
  /\ Removed(1) = free[1][1] /\ free[1][1] > 0 /\ LeftAt(2) > 0
  /\ Removed(2) = LeftAt(2) /\ free[1][2] > LeftAt(2)

\* C14: a scaleset scale_down retires keeps its size, is in state shutdown,
\* lowers the count still to remove by its whole size, and each of its nodes
\* gets exactly one set_shutdown, after the save of the state change.
FullRetirementEffect ==
  Called =>
    /\ remaining["t1"] = LeftAt(Len(ReadList("t1", 1)) + 1)
    /\ \A i \in DOMAIN ReadList("t1", 1) :
         store[1][i].state = "shutdown" =>
           /\ store[1][i].size = ReadList("t1", 1)[i].size
           /\ \E s \in EventsOf("shutdown") :
                /\ log["t1"][s].ss = i
                /\ \A k \in ShutdownCommands("t1", 1, i) : s < k
           /\ \A n \in 1..ReadList("t1", 1)[i].size :
                Cardinality({k \in ShutdownCommands("t1", 1, i) : log["t1"][k].node = n}) = 1
           /\ Cardinality(ShutdownCommands("t1", 1, i)) = ReadList("t1", 1)[i].size

\* C14 witness: a scaleset of two free nodes was retired with more to remove
\* than its size.
RetiredTwoNodes ==
  /\ Called
  /\ \E i \in DOMAIN ReadList("t1", 1) :
       /\ store[1][i].state = "shutdown" /\ ReadList("t1", 1)[i].size = 2
       /\ LeftAt(i) > 2
       /\ Cardinality(ShutdownCommands("t1", 1, i)) = 2

\* invocation t has made its call of scale_up for pool p, which has no region
\* and more demand than its running scalesets had room for
RaisedFor(t, p) ==
  /\ seen[t][p] # None
  /\ ~seen[t][p][1].pool_resize
  /\ pools[p].autoscale[1].region \in {"None", ""}
  /\ seen[t][p][1].nodes_needed > Room(ReadList(t, p), pools[p].autoscale[1].scaleset_size)
  /\ ~(pool[t] = p /\ pc[t] = "scale_up")

\* C15: when scale_up raises for a pool the tick ends there: no later pool is
\* read or mutated in that tick, and what the tick had saved before stays in
\* the store.
ErrorAbortsTick ==
  \A t \in Ticks : \A p \in Pools :
    RaisedFor(t, p) =>
      /\ pc[t] = "error" /\ pool[t] = p
      /\ \A q \in Pools : q > p => seen[t][q] = None /\ ~Mutated(t, q)
      /\ ~ext_changed =>
           \A k \in DOMAIN log[t] :
             LET e == log[t][k]
             IN  /\ e.op # "set_shutdown" => store[e.pool][e.ss].size = e.new
                 /\ e.op = "resize" => store[e.pool][e.ss].state = "resize"
                 /\ e.op = "shutdown" => store[e.pool][e.ss].state = "shutdown"

\* C15 witness: the first pool raised after a resize that is still in the
\* store; the second pool has demand and no scaleset, and was not read.
AbortedAtFirstPool ==
  /\ RaisedFor("t1", 1) /\ pc["t1"] = "error"
  /\ \E k \in DOMAIN log["t1"] :
       /\ log["t1"][k].op = "resize" /\ log["t1"][k].pool = 1
       /\ store[1][log["t1"][k].ss].size = log["t1"][k].new
       /\ log["t1"][k].new > log["t1"][k].old
  /\ pools[2].state \in available /\ pools[2].autoscale # None
  /\ tasks[2] # <<>> /\ store[2] = <<>>
  /\ seen["t1"][2] = None

\* ------------------------------------------------- overlapping invocations
\* two invocations of main can be in flight; the first pool is one main works
\* on, the second one it passes over
InitOverlap ==
  /\ \E w \in ActiveWorlds : InitWith([p \in Pools |-> IF p = 1 THEN w ELSE IdleWorld])
  /\ pc = [t \in Ticks |-> "idle"]
  /\ pool = [t \in Ticks |-> 1]
  /\ scalesets = [t \in Ticks |-> <<>>]
  /\ nodes_needed = [t \in Ticks |-> 0]
  /\ seen = [t \in Ticks |-> NothingSeen]
  /\ ticks = 0

NextOverlap == \E t \in Ticks : TickStart(t) \/ Scan(t) \/ ScaleUp(t) \/ ScaleDown(t)

SpecOverlap == InitOverlap /\ [][NextOverlap]_vars

\* invocation t has read pool p, found it in need of nodes, and its call of
\* scale_up for it has ended without error
ScaledUp(t, p) ==
  /\ seen[t][p] # None
  /\ ~seen[t][p][1].pool_resize /\ seen[t][p][1].nodes_needed > 0
  /\ ~(pool[t] = p /\ pc[t] = "scale_up") /\ pc[t] # "error"
\* the mutations invocation t issued for pool p
MutationsFor(t, p) == SelectSeq(log[t], LAMBDA e : e.pool = p)

\* C16: two invocations that read the same scalesets of a pool in need of
\* nodes, neither seeing a mutation of the other, both issue the mutations
\* for that need, and the pool ends with the desired total plus the size of
\* the scalesets one of them created.
OverlapActsTwice ==
  \A p \in Pools :
    (/\ ScaledUp("t1", p) /\ ScaledUp("t2", p)
     /\ ReadList("t1", p) = ReadList("t2", p))
    => /\ Mutated("t1", p) /\ Mutated("t2", p)
       /\ MutationsFor("t1", p) = MutationsFor("t2", p)
       /\ SumSizes(store[p]) =
            seen["t1"][p][1].desired
            + Max(0, seen["t1"][p][1].nodes_needed
                     - Room(ReadList("t1", p), pools[p].autoscale[1].scaleset_size))

\* C16 witness: both invocations resized the scaleset and created one, and
\* the pool holds more nodes than desired.
OverlapOvershoot ==
  /\ ScaledUp("t1", 1) /\ ScaledUp("t2", 1)
  /\ ReadList("t1", 1) = ReadList("t2", 1)
  /\ \A t \in Ticks : \E r, c \in DOMAIN log[t] :
       log[t][r].op = "resize" /\ log[t][c].op = "create"
  /\ SumSizes(store[1]) > seen["t1"][1][1].desired

\* C17 as stated: after scale_down every scaleset has size >= 0, whatever
\* number of free nodes is reported for it.
SizeNonNegative ==
  Called => \A i \in DOMAIN store[1] : store[1][i].size >= 0

\* the nodes scale_down took from the first i scalesets of the first pool
Reclaimed(i) == SumTo([j \in 1..i |-> Removed(j)], i)

\* C18: in scale_down the count still to remove never falls below 0, so it
\* takes at most the requested number of nodes and leaves the pool with at
\* least its desired total.
NoOvershoot ==
  Called =>
    LET n == Len(ReadList("t1", 1))
    IN  /\ \A i \in 1..(n + 1) : LeftAt(i) >= 0
        /\ SumSizes(store[1]) >= seen["t1"][1][1].desired
        /\ remaining["t1"] >= 0
        /\ remaining["t1"] = -nodes_needed["t1"] - Reclaimed(n)
        /\ Reclaimed(n) <= -nodes_needed["t1"]
        /\ SumSizes(ReadList("t1", 1)) - Reclaimed(n) >= seen["t1"][1][1].desired

\* C18 witness: two scalesets gave up exactly the requested nodes, the second
\* one fewer than it has free.
ReclaimedExactly ==
  /\ Called
  /\ Len(ReadList("t1", 1)) = 2
  /\ Removed(1) > 0 /\ Removed(2) > 0 /\ Removed(2) < free[1][2]
  /\ remaining["t1"] = 0
  /\ SumSizes(ReadList("t1", 1)) - Reclaimed(2) = seen["t1"][1][1].desired

\* the invocation before this one ended in an exception of the call for pool p
PrevRaisedFor(p) ==
  /\ prev_pc = "error"
  /\ prev_seen[p] # None
  /\ \A q \in Pools : q > p => prev_seen[q] = None

\* the invocation before this one found pool p settled and left it with the
\* nodes it wanted: it asked for n >= 0 more nodes and its call did not raise
PrevSatisfied(p) ==
  /\ prev_seen[p] # None
  /\ ~prev_seen[p][1].pool_resize
  /\ prev_seen[p][1].nodes_needed >= 0
  /\ ~PrevRaisedFor(p)

\* C19: when the invocation before scaled a pool up without error (or
\* already computed nodes_needed = 0 for it) and this one finds every
\* scaleset of the pool out of its transition, this one computes
\* nodes_needed = 0 for the pool, reads the sizes the one before saved and
\* issues no mutation for the pool.
ConvergenceAfterScaleUp ==
  \A p \in Pools :
    (/\ PrevSatisfied(p)
     /\ seen["t1"][p] # None
     /\ ~seen["t1"][p][1].pool_resize)
    => /\ seen["t1"][p][1].nodes_needed = 0
       /\ SumSizes(ReadList("t1", p)) = prev_seen[p][1].desired
       /\ ~Mutated("t1", p)
       /\ store[p] = ReadList("t1", p)

\* C19 witness: the third invocation has ended; the first pool holds a
\* scaleset the first invocation created, and the second and the third
\* invocation computed nodes_needed = 0 for it.
ConvergedAndStayed ==
  /\ ticks = 3 /\ pc["t1"] = "done"
  /\ PrevSatisfied(1) /\ prev_seen[1][1].nodes_needed = 0
  /\ seen["t1"][1] # None /\ seen["t1"][1][1].nodes_needed = 0
  /\ Len(ReadList("t1", 1)) = 2
  /\ \A i \in 1..2 : ReadList("t1", 1)[i].state = "running"
  /\ store[1] = ReadList("t1", 1)
====
